---- MODULE Spec2Model ----
(***************************************************************************)
(* Gold price pipeline: the updater (src/src/extract_gold_data.py), its    *)
(* configuration (src/src/config.py) and the query service                 *)
(* (src/src/api.py), as one state machine over the three persisted files.  *)
(*                                                                         *)
(* Time is counted in ticks, TicksPerDay to a calendar day; day 0 is a     *)
(* Monday.  A pandas Timestamp / datetime is a tick count, a calendar date *)
(* (datetime.date) is a day number.                                        *)
(***************************************************************************)
EXTENDS Integers, Naturals, Sequences, FiniteSets, TLC

VARIABLES
    clock,            \* the calendar day the wall clock shows (datetime.now())
    BACKUP_PATH,      \* dataset/gold_backup.parquet: NoFile or a table
    DAILY_PATH,       \* dataset/gold_daily.parquet: NoFile or a table
    CHECKPOINT_PATH,  \* dataset/last_update.txt: NoFile or ISO text
    pc,               \* where the updater process stands
    frame,            \* the running updater's fetched rows (df / df_new)
    command,          \* the last updater run's command line
    outcome,          \* how that run ended, "running" between its writes
    provider,         \* what became of that run's provider call
    response,         \* the query service's answer to the last request
    calendar          \* the last answer of get_last_business_day, asked alone

vars == <<clock, BACKUP_PATH, DAILY_PATH, CHECKPOINT_PATH, pc, frame,
          command, outcome, provider, response, calendar>>

files == <<BACKUP_PATH, DAILY_PATH, CHECKPOINT_PATH>>

(***************************************************************************)
(* Bounds of the model.                                                    *)
(***************************************************************************)
TicksPerDay == 2       \* resolution of a timestamp within one day
FirstRunDay == 4       \* the day of the first run (day 0 is a Monday)
MaxDaysElapsed == 1    \* how many days the clock advances
MaxBars == 2           \* rows in one provider answer
MaxLimit == 2          \* the largest limit a client asks for
MaxSkip == 3           \* the largest skip a client asks for
CalendarDays == 56     \* the days on which the calendar is asked

(***************************************************************************)
(* Program constants.                                                      *)
(***************************************************************************)
BACKUP_YEARS == 3
DaysPerYear == 365
API_MAX_LIMIT == 1000

\* a path with no file behind it, and a file with its content
NoFile == [exists |-> FALSE]
File(content) == [exists |-> TRUE, content |-> content]

\* a provider call that raises, and one that answers with bars
Raises == [fails |-> TRUE]
Answers(bars) == [fails |-> FALSE, bars |-> bars]

NoResponse == [endpoint |-> "none"]

\* get_last_business_day not asked yet
NoCall == [asked |-> FALSE]

Min(a, b) == IF a <= b THEN a ELSE b
Max(a, b) == IF a >= b THEN a ELSE b

(***************************************************************************)
(* datetime / Timestamp arithmetic.                                        *)
(***************************************************************************)
timedelta(days) == days * TicksPerDay

\* Timestamp.date(), Series.dt.date: the calendar date of a timestamp
dt_date(ts) == ts \div TicksPerDay

\* datetime.weekday(): Monday is 0, Sunday is 6
weekday(ts) == dt_date(ts) % 7

\* the jobs run during the day, never at the stroke of midnight
datetime_now == clock * TicksPerDay + (TicksPerDay - 1)

\* Timestamp.isoformat(): "YYYY-MM-DDTHH:MM:SS", date part and time part
isoformat(ts) == [ymd |-> ts \div TicksPerDay, hms |-> ts % TicksPerDay]

\* pd.to_datetime(text) of the checkpoint text
to_datetime(text) == text.ymd * TicksPerDay + text.hms

get_backup_start_date(now) == now - timedelta(BACKUP_YEARS * DaysPerYear)

get_last_business_day(today) ==
    IF weekday(today) = 5 THEN today - timedelta(1)
    ELSE IF weekday(today) = 6 THEN today - timedelta(2)
    ELSE today - timedelta(1)

(***************************************************************************)
(* The provider.  Its bars are daily: the index of a bar is midnight of a  *)
(* trading day (Monday to Friday, up to the day of the call) in the        *)
(* exchange's time zone.  What it holds at a call                          *)
(* (the market) is arbitrary: any bars, repeated dates included, in index  *)
(* order, or a failure.  history(start, end) answers with the bars of the  *)
(* market whose index lies in [start, end).                                *)
(***************************************************************************)
Quotes == { [High |-> 3, Low |-> 1, Close |-> 2],
            [High |-> 5, Low |-> 2, Close |-> 4] }

\* the provider's history starts two days before the first run
FirstListedDay == FirstRunDay - 2
LastDay == FirstRunDay + MaxDaysElapsed

ProviderBars(day) ==
    { [Index |-> [wall |-> d * TicksPerDay, tz |-> "America/New_York"],
       High |-> q.High, Low |-> q.Low, Close |-> q.Close] :
         d \in { t \in FirstListedDay..day : t % 7 < 5 }, q \in Quotes }

IndexOrdered(s) ==
    \A i \in 1..(Len(s) - 1) : s[i].Index.wall <= s[i + 1].Index.wall

Markets(day) ==
    {Raises} \cup
    { Answers(s) : s \in UNION { { t \in [1..n -> ProviderBars(day)] : IndexOrdered(t) } :
                                   n \in 0..MaxBars } }

history(market, start, end) ==
    IF start >= end THEN <<>>
    ELSE SelectSeq(market.bars, LAMBDA b : start <= b.Index.wall /\ b.Index.wall < end)

\* Series.dt.tz_localize(None): drop the zone, keep the wall time
tz_localize_none(idx) == idx.wall

EmptyFrame == <<>>

extract_historical_data(market, start_date, end_date) ==
    IF market.fails THEN EmptyFrame
    ELSE LET df == history(market, start_date, end_date)
         IN  IF df = <<>> THEN EmptyFrame
             ELSE [i \in 1..Len(df) |->
                     [date |-> tz_localize_none(df[i].Index),
                      max_price |-> df[i].High,
                      min_price |-> df[i].Low,
                      closed_price |-> df[i].Close]]

(***************************************************************************)
(* DataFrame operations.                                                   *)
(***************************************************************************)
\* NaT, what max and min of an empty column give
NaT == 0 - 1

RECURSIVE date_max(_)
date_max(df) ==
    IF df = <<>> THEN NaT
    ELSE IF Len(df) = 1 THEN df[1].date
    ELSE Max(df[1].date, date_max(Tail(df)))

concat(a, b) == a \o b

\* faulty variant: no row is dropped
drop_duplicates_none(df) == df

\* faulty variant: keep='first', the earliest row of a date stays
drop_duplicates_keep_first(df) ==
    LET keep(i) == \A j \in 1..(i - 1) : df[j].date # df[i].date
        RECURSIVE walk(_)
        walk(i) == IF i > Len(df) THEN <<>>
                   ELSE IF keep(i) THEN <<df[i]>> \o walk(i + 1)
                   ELSE walk(i + 1)
    IN  walk(1)

\* drop_duplicates(subset=['date'], keep='last'): a row stays when no later
\* row carries the same date
drop_duplicates_keep_last(df) ==
    LET keep(i) == \A j \in (i + 1)..Len(df) : df[j].date # df[i].date
        RECURSIVE walk(_)
        walk(i) == IF i > Len(df) THEN <<>>
                   ELSE IF keep(i) THEN <<df[i]>> \o walk(i + 1)
                   ELSE walk(i + 1)
    IN  walk(1)

\* sort_values('date', ascending): rows with equal dates keep their order
RECURSIVE insert_sorted(_, _, _)
insert_sorted(row, sorted, ascending) ==
    IF sorted = <<>> THEN <<row>>
    ELSE IF (ascending /\ row.date < sorted[1].date)
              \/ (~ascending /\ row.date > sorted[1].date)
         THEN <<row>> \o sorted
         ELSE <<sorted[1]>> \o insert_sorted(row, Tail(sorted), ascending)

RECURSIVE sort_values(_, _)
sort_values(df, ascending) ==
    IF df = <<>> THEN <<>>
    ELSE insert_sorted(df[Len(df)],
                       sort_values(SubSeq(df, 1, Len(df) - 1), ascending),
                       ascending)

consolidate(df_existing, df_new) ==
    sort_values(drop_duplicates_keep_last(concat(df_existing, df_new)), TRUE)

(***************************************************************************)
(* The updater.                                                            *)
(***************************************************************************)
Init ==
    /\ clock = FirstRunDay
    /\ BACKUP_PATH = NoFile
    /\ DAILY_PATH = NoFile
    /\ CHECKPOINT_PATH = NoFile
    /\ pc = "idle"
    /\ frame = EmptyFrame
    /\ command = "none"
    /\ outcome = "none"
    /\ provider = "not_called"
    /\ response = NoResponse
    /\ calendar = NoCall

\* what became of the provider call inside extract_historical_data
provider_call(market) == IF market.fails THEN "raised" ELSE "answered"

\* faulty variant: the empty check is gone
backup_never_failed(df) == FALSE

\* if df.empty: sys.exit(1)
backup_failed(df) == df = EmptyFrame

\* faulty variant: the checkpoint is written first, ahead of the table
create_backup_checkpoint_first(market) ==
    LET start_date == get_backup_start_date(datetime_now)
        df == extract_historical_data(market, start_date, datetime_now)
    IN  /\ provider' = provider_call(market)
        /\ IF backup_failed(df)
           THEN /\ outcome' = "exit_1"
                /\ UNCHANGED <<files, pc, frame>>
           ELSE /\ CHECKPOINT_PATH' = File(isoformat(date_max(df)))
                /\ frame' = df
                /\ pc' = "backup_saved"
                /\ outcome' = "running"
                /\ UNCHANGED <<BACKUP_PATH, DAILY_PATH>>

\* create_backup up to and including df.to_parquet(BACKUP_PATH)
create_backup(market) ==
    LET start_date == get_backup_start_date(datetime_now)
        df == extract_historical_data(market, start_date, datetime_now)
    IN  /\ provider' = provider_call(market)
        /\ IF backup_failed(df)
           THEN /\ outcome' = "exit_1"
                /\ UNCHANGED <<files, pc, frame>>
           ELSE /\ BACKUP_PATH' = File(df)
                /\ frame' = df
                /\ pc' = "backup_saved"
                /\ outcome' = "running"
                /\ UNCHANGED <<DAILY_PATH, CHECKPOINT_PATH>>

\* create_backup: the checkpoint write that follows the table write
backup_checkpoint ==
    /\ pc = "backup_saved"
    /\ CHECKPOINT_PATH' = File(isoformat(date_max(frame)))
    /\ pc' = "idle"
    /\ frame' = EmptyFrame
    /\ outcome' = "backup"
    /\ UNCHANGED <<clock, BACKUP_PATH, DAILY_PATH, command, provider, response, calendar>>

\* faulty variant: a checkpoint on the last business day still fetches
up_to_date_strict(last_update, last_business_day) ==
    dt_date(last_update) > dt_date(last_business_day)

\* if last_update.date() >= last_business_day.date(): nothing to fetch
up_to_date(last_update, last_business_day) ==
    dt_date(last_update) >= dt_date(last_business_day)

\* faulty variant: the window starts before the checkpoint
incremental_start_before(last_update) == last_update - timedelta(1)

\* start_date=last_update + pd.Timedelta(days=1)
incremental_start(last_update) == last_update + timedelta(1)

\* if df_new.empty: nothing new
no_new_data(df_new) == df_new = EmptyFrame

\* faulty variant: the checkpoint taken from the merged table
new_checkpoint_of_merged(df_new, df_consolidated) == date_max(df_consolidated)

\* new_checkpoint = df_new['date'].max()
new_checkpoint(df_new, df_consolidated) == date_max(df_new)

\* incremental_update up to and including df_consolidated.to_parquet(DAILY_PATH)
incremental_update(market) ==
    IF ~CHECKPOINT_PATH.exists THEN create_backup(market)
    ELSE
      LET last_update == to_datetime(CHECKPOINT_PATH.content)
          last_business_day == get_last_business_day(datetime_now)
      IN  IF up_to_date(last_update, last_business_day)
          THEN /\ outcome' = "up_to_date"
               /\ provider' = "not_called"
               /\ UNCHANGED <<files, pc, frame>>
          ELSE
            LET df_new == extract_historical_data(
                              market, incremental_start(last_update), last_business_day)
            IN  /\ provider' = provider_call(market)
                /\ IF no_new_data(df_new)
                   THEN /\ outcome' = "no_new_data"
                        /\ UNCHANGED <<files, pc, frame>>
                   ELSE LET df_existing ==
                                IF DAILY_PATH.exists THEN DAILY_PATH.content
                                ELSE EmptyFrame
                        IN  /\ DAILY_PATH' = File(consolidate(df_existing, df_new))
                            /\ frame' = df_new
                            /\ pc' = "daily_saved"
                            /\ outcome' = "running"
                            /\ UNCHANGED <<BACKUP_PATH, CHECKPOINT_PATH>>

\* incremental_update: the checkpoint write that follows the table write
incremental_checkpoint ==
    /\ pc = "daily_saved"
    /\ CHECKPOINT_PATH' = File(isoformat(new_checkpoint(frame, DAILY_PATH.content)))
    /\ pc' = "idle"
    /\ frame' = EmptyFrame
    /\ outcome' = "merged"
    /\ UNCHANGED <<clock, BACKUP_PATH, DAILY_PATH, command, provider, response, calendar>>

\* The steps of the model do not overlap: no updater runs, and no request is
\* in hand (the query service keeps nothing between requests).
Quiet == pc = "idle" /\ response = NoResponse

\* main: "--backup" forces create_backup, anything else runs incremental_update
MainBackup ==
    /\ Quiet
    /\ command' = "--backup"
    /\ UNCHANGED <<clock, response, calendar>>
    /\ \E market \in Markets(clock) : create_backup(market)

MainIncremental ==
    /\ Quiet
    /\ command' = "incremental"
    /\ UNCHANGED <<clock, response, calendar>>
    /\ \E market \in Markets(clock) : incremental_update(market)

\* the process is killed between its two writes
Interrupted ==
    /\ pc \in {"backup_saved", "daily_saved"}
    /\ pc' = "idle"
    /\ frame' = EmptyFrame
    /\ outcome' = "interrupted"
    /\ UNCHANGED <<clock, files, command, provider, response, calendar>>

\* a day passes between runs
NextDay ==
    /\ Quiet
    /\ clock < LastDay
    /\ clock' = clock + 1
    /\ UNCHANGED <<files, pc, frame, command, outcome, provider, response, calendar>>

UpdaterNext ==
    \/ MainBackup
    \/ MainIncremental
    \/ backup_checkpoint
    \/ incremental_checkpoint
    \/ Interrupted
    \/ NextDay

(***************************************************************************)
(* The query service.  Every endpoint loads the table anew.                *)
(***************************************************************************)
\* faulty variant: the backup table is preferred
load_data_backup_first ==
    IF BACKUP_PATH.exists
    THEN [ok |-> TRUE, df |-> BACKUP_PATH.content, source |-> "BACKUP_PATH"]
    ELSE IF DAILY_PATH.exists
    THEN [ok |-> TRUE, df |-> DAILY_PATH.content, source |-> "DAILY_PATH"]
    ELSE [ok |-> FALSE, status_code |-> 404,
          detail |-> "No data available. Run the pipeline first.",
          source |-> "none"]

\* load_data: the table read, the path it was read from, or the 404
load_data ==
    IF DAILY_PATH.exists
    THEN [ok |-> TRUE, df |-> DAILY_PATH.content, source |-> "DAILY_PATH"]
    ELSE IF BACKUP_PATH.exists
    THEN [ok |-> TRUE, df |-> BACKUP_PATH.content, source |-> "BACKUP_PATH"]
    ELSE [ok |-> FALSE, status_code |-> 404,
          detail |-> "No data available. Run the pipeline first.",
          source |-> "none"]

\* the HTTPException of load_data as the endpoint's response
LoadFailure(endpoint, args, loaded) ==
    [endpoint |-> endpoint, args |-> args, status_code |-> loaded.status_code,
     detail |-> loaded.detail, source |-> loaded.source]

Ok(endpoint, args, loaded, body) ==
    [endpoint |-> endpoint, args |-> args, status_code |-> 200,
     body |-> body, source |-> loaded.source]

NotFound(endpoint, args, loaded, detail) ==
    [endpoint |-> endpoint, args |-> args, status_code |-> 404,
     detail |-> detail, source |-> loaded.source]

\* faulty variant: the slice takes its last row too
iloc_inclusive(df, start, stop) ==
    LET lo == Min(start, Len(df))
        hi == Min(stop + 1, Len(df))
    IN  [i \in 1..Max(0, hi - lo) |-> df[lo + i]]

\* df.iloc[start:stop] for start, stop >= 0
iloc(df, start, stop) ==
    LET lo == Min(start, Len(df))
        hi == Min(stop, Len(df))
    IN  [i \in 1..Max(0, hi - lo) |-> df[lo + i]]

\* df['date'].idxmax(): the position of the first row with the largest date
idxmax(df) ==
    CHOOSE i \in 1..Len(df) :
        /\ \A j \in 1..Len(df) : df[j].date <= df[i].date
        /\ \A j \in 1..(i - 1) : df[j].date < df[i].date

RECURSIVE date_min(_)
date_min(df) ==
    IF Len(df) = 1 THEN df[1].date
    ELSE Min(df[1].date, date_min(Tail(df)))

RECURSIVE closed_sum(_)
closed_sum(df) ==
    IF df = <<>> THEN 0 ELSE df[1].closed_price + closed_sum(Tail(df))

RECURSIVE closed_max(_)
closed_max(df) ==
    IF Len(df) = 1 THEN df[1].closed_price
    ELSE Max(df[1].closed_price, closed_max(Tail(df)))

RECURSIVE closed_min(_)
closed_min(df) ==
    IF Len(df) = 1 THEN df[1].closed_price
    ELSE Min(df[1].closed_price, closed_min(Tail(df)))

get_all_prices(limit, skip) ==
    LET args == [limit |-> limit, skip |-> skip]
        loaded == load_data
    IN  IF ~loaded.ok THEN LoadFailure("prices", args, loaded)
        ELSE LET df_sorted == sort_values(loaded.df, FALSE)
                 df_page == iloc(df_sorted, skip, skip + limit)
             IN  Ok("prices", args, loaded, df_page)

get_latest_price ==
    LET loaded == load_data
    IN  IF ~loaded.ok THEN LoadFailure("latest", <<>>, loaded)
        ELSE Ok("latest", <<>>, loaded, loaded.df[idxmax(loaded.df)])

\* faulty variant: the timestamp itself is compared with the date
get_price_by_date_undated(target_date) ==
    LET args == [target_date |-> target_date]
        loaded == load_data
    IN  IF ~loaded.ok THEN LoadFailure("date", args, loaded)
        ELSE LET df_filtered ==
                     SelectSeq(loaded.df, LAMBDA r : r.date = target_date)
             IN  IF df_filtered = <<>>
                 THEN NotFound("date", args, loaded, "No data found for date")
                 ELSE Ok("date", args, loaded, df_filtered[1])

get_price_by_date(target_date) ==
    LET args == [target_date |-> target_date]
        loaded == load_data
    IN  IF ~loaded.ok THEN LoadFailure("date", args, loaded)
        ELSE LET df_filtered ==
                     SelectSeq(loaded.df, LAMBDA r : dt_date(r.date) = target_date)
             IN  IF df_filtered = <<>>
                 THEN NotFound("date", args, loaded, "No data found for date")
                 ELSE Ok("date", args, loaded, df_filtered[1])

get_prices_by_range(start_date, end_date) ==
    LET args == [start_date |-> start_date, end_date |-> end_date]
        loaded == load_data
    IN  IF ~loaded.ok THEN LoadFailure("range", args, loaded)
        ELSE LET mask(r) == dt_date(r.date) >= start_date /\ dt_date(r.date) <= end_date
                 df_filtered == sort_values(SelectSeq(loaded.df, mask), TRUE)
             IN  IF df_filtered = <<>>
                 THEN NotFound("range", args, loaded, "No data found between")
                 ELSE Ok("range", args, loaded, df_filtered)

get_statistics ==
    LET loaded == load_data
    IN  IF ~loaded.ok THEN LoadFailure("stats", <<>>, loaded)
        ELSE LET df == loaded.df
             IN  Ok("stats", <<>>, loaded,
                    [total_records |-> Len(df),
                     date_range_start |-> date_min(df),
                     date_range_end |-> date_max(df),
                     \* the mean, as the fraction sum / count
                     avg_closed_price |-> <<closed_sum(df), Len(df)>>,
                     max_closed_price |-> closed_max(df),
                     min_closed_price |-> closed_min(df)])

\* faulty variant: the exception of load_data is not caught
health_check_uncaught ==
    LET loaded == load_data
    IN  IF loaded.ok
        THEN [endpoint |-> "health", args |-> <<>>, status_code |-> 200,
              body |-> [status |-> "healthy", data_available |-> TRUE,
                        total_records |-> Len(loaded.df),
                        last_update |-> isoformat(date_max(loaded.df))],
              source |-> loaded.source]
        ELSE LoadFailure("health", <<>>, loaded)

\* health_check: any exception of the try block becomes the 503
health_check ==
    LET loaded == load_data
    IN  IF loaded.ok
        THEN [endpoint |-> "health", args |-> <<>>, status_code |-> 200,
              body |-> [status |-> "healthy", data_available |-> TRUE,
                        total_records |-> Len(loaded.df),
                        last_update |-> isoformat(date_max(loaded.df))],
              source |-> loaded.source]
        ELSE [endpoint |-> "health", args |-> <<>>, status_code |-> 503,
              body |-> [status |-> "unhealthy", data_available |-> FALSE,
                        error |-> loaded.detail],
              source |-> loaded.source]

\* the requests a client sends: limit in 1..1000, skip >= 0, calendar dates
Limits == 1..Min(MaxLimit, API_MAX_LIMIT)
Skips == 0..MaxSkip
QueryDates == FirstListedDay..LastDay

Serve(answer) ==
    /\ Quiet
    /\ response' = answer
    /\ UNCHANGED <<clock, files, pc, frame, command, outcome, provider, calendar>>

GetPrices == \E limit \in Limits, skip \in Skips : Serve(get_all_prices(limit, skip))

GetLatest == Serve(get_latest_price)

GetDate == \E d \in QueryDates : Serve(get_price_by_date(d))

GetRange == \E a \in QueryDates, b \in QueryDates : Serve(get_prices_by_range(a, b))

GetStats == Serve(get_statistics)

GetHealth == Serve(health_check)

\* the response leaves for the client
Deliver ==
    /\ response # NoResponse
    /\ response' = NoResponse
    /\ UNCHANGED <<clock, files, pc, frame, command, outcome, provider, calendar>>

ApiNext ==
    \/ Deliver
    \/ GetPrices
    \/ GetLatest
    \/ GetDate
    \/ GetRange
    \/ GetStats
    \/ GetHealth

\* the updater alone
Next == UpdaterNext

Spec == Init /\ [][Next]_vars

\* the updater and the query service over the same files
SystemNext == UpdaterNext \/ ApiNext

SpecApi == Init /\ [][SystemNext]_vars

(***************************************************************************)
(* get_last_business_day on its own: the clock shows any day of            *)
(* CalendarDays days, every day of the week among them, and the function   *)
(* is asked once.                                                          *)
(***************************************************************************)
InitCalendar ==
    /\ clock \in 1..CalendarDays
    /\ BACKUP_PATH = NoFile
    /\ DAILY_PATH = NoFile
    /\ CHECKPOINT_PATH = NoFile
    /\ pc = "idle"
    /\ frame = EmptyFrame
    /\ command = "none"
    /\ outcome = "none"
    /\ provider = "not_called"
    /\ response = NoResponse
    /\ calendar = NoCall

AskLastBusinessDay ==
    /\ ~calendar.asked
    /\ calendar' = [asked |-> TRUE, today |-> datetime_now,
                    result |-> get_last_business_day(datetime_now)]
    /\ UNCHANGED <<clock, files, pc, frame, command, outcome, provider, response>>

SpecCalendar == InitCalendar /\ [][AskLastBusinessDay]_vars

(***************************************************************************)
(* Properties.                                                             *)
(***************************************************************************)
Checkpoint == to_datetime(CHECKPOINT_PATH.content)

Dates(df) == { df[i].date : i \in 1..Len(df) }

\* the largest date of a non-empty table, said without date_max
IsMaxDate(m, df) == m \in Dates(df) /\ \A d \in Dates(df) : d <= m

OneRecordPerDate(df) ==
    \A i \in 1..Len(df), j \in 1..Len(df) : df[i].date = df[j].date => i = j

\* C1: across updater runs (incremental_update and forced create_backup, in
\* any order, whatever the provider answers) the persisted checkpoint never
\* decreases: a checkpoint, once written, stays, and no step lowers it.
C1_CheckpointNeverDecreases ==
    [][CHECKPOINT_PATH.exists =>
         /\ CHECKPOINT_PATH'.exists
         /\ to_datetime(CHECKPOINT_PATH'.content) >= Checkpoint]_vars

\* C1, amended: no step of the updater other than create_backup's checkpoint
\* write lowers or removes the checkpoint; an incremental_update that finds a
\* checkpoint leaves it at least as late as it was.
C1_IncrementalNeverDecreases ==
    [][(CHECKPOINT_PATH.exists /\ pc # "backup_saved") =>
         /\ CHECKPOINT_PATH'.exists
         /\ to_datetime(CHECKPOINT_PATH'.content) >= Checkpoint]_vars

\* C1 witness: an incremental_update that found a checkpoint has merged new
\* rows and written its checkpoint
C1_Witness ==
    /\ command = "incremental"
    /\ outcome = "merged"
    /\ CHECKPOINT_PATH.exists

\* C2: an incremental_update that fetched new rows leaves the table write
\* with the checkpoint untouched, and then writes as checkpoint the largest
\* date of the newly fetched rows (not of the merged table), the merged table
\* being on disk by then with every new date in it.  A run that found no
\* checkpoint and made the full backup instead does the same with the rows
\* of the backup.
C2_CheckpointIsMaxOfNewRows ==
    [][/\ pc' = "daily_saved" =>
            /\ CHECKPOINT_PATH' = CHECKPOINT_PATH
            /\ frame' # EmptyFrame
            /\ DAILY_PATH'.exists
            /\ Dates(frame') \subseteq Dates(DAILY_PATH'.content)
       /\ (pc = "daily_saved" /\ outcome' = "merged") =>
            /\ DAILY_PATH' = DAILY_PATH
            /\ CHECKPOINT_PATH'.exists
            /\ IsMaxDate(to_datetime(CHECKPOINT_PATH'.content), frame)
       /\ (pc = "daily_saved" /\ CHECKPOINT_PATH' # CHECKPOINT_PATH) =>
            outcome' = "merged"
       /\ (pc = "backup_saved" /\ command = "incremental" /\ outcome' = "backup") =>
            /\ BACKUP_PATH' = BACKUP_PATH
            /\ CHECKPOINT_PATH'.exists
            /\ IsMaxDate(to_datetime(CHECKPOINT_PATH'.content), frame)]_vars

\* C2 witness: a finished merge whose checkpoint lies below the latest date
\* of the merged table
C2_Witness ==
    /\ outcome = "merged"
    /\ DAILY_PATH.exists
    /\ Checkpoint < date_max(DAILY_PATH.content)

\* the non-empty new-rows sets the provider can hand to a merge
NewRowSets ==
    { extract_historical_data(m, FirstListedDay * TicksPerDay, datetime_now) :
        m \in Markets(clock) } \ {EmptyFrame}

ExistingTable == IF DAILY_PATH.exists THEN DAILY_PATH.content ELSE EmptyFrame

\* C3: merging is idempotent: for the existing table T and every non-empty
\* set N of new rows, merging N into T and N again into the result gives the
\* table that merging N into T once gives: same dates, prices and order.
C3_MergeIdempotent ==
    \A N \in NewRowSets :
        consolidate(consolidate(ExistingTable, N), N) = consolidate(ExistingTable, N)

\* C3 witness: a merge has run, and some new-rows set carries a date of the
\* merged table with another price
C3_Witness ==
    /\ outcome = "merged"
    /\ DAILY_PATH.exists
    /\ \E N \in NewRowSets : \E i \in 1..Len(N), j \in 1..Len(DAILY_PATH.content) :
          /\ N[i].date = DAILY_PATH.content[j].date
          /\ N[i] # DAILY_PATH.content[j]

\* C4: every persisted price table, the primary table and the backup table,
\* holds at most one record for each date, whatever rows the provider gave.
C4_OneRecordPerDate ==
    /\ DAILY_PATH.exists => OneRecordPerDate(DAILY_PATH.content)
    /\ BACKUP_PATH.exists => OneRecordPerDate(BACKUP_PATH.content)

LastBusinessDate == dt_date(get_last_business_day(datetime_now))

\* a step that is an updater run started from rest: not the clock's, not the
\* query service's
RunStep == Quiet /\ clock' = clock /\ response' = response

\* C9: a full backup whose extraction is empty (the provider gave no bars or
\* raised) exits with an error and writes nothing: backup table, primary
\* table and checkpoint stay as they were; a backup that writes, writes a
\* non-empty extraction; a provider failure ends the run as an empty
\* extraction does.
C9_EmptyBackupWritesNothing ==
    [][/\ outcome' = "exit_1" => (files' = files /\ pc' = "idle")
       /\ (RunStep /\ (command' = "--backup" \/ ~CHECKPOINT_PATH.exists)) =>
            \/ outcome' = "exit_1"
            \/ /\ pc' = "backup_saved"
               /\ frame' # EmptyFrame
               /\ BACKUP_PATH' = File(frame')
               /\ provider' = "answered"
       /\ provider' = "raised" =>
            (outcome' \in {"exit_1", "no_new_data"} /\ files' = files)]_vars

\* C9 witness: a backup failed on a provider exception with all three files
\* already there
C9_Witness ==
    /\ outcome = "exit_1"
    /\ provider = "raised"
    /\ BACKUP_PATH.exists
    /\ DAILY_PATH.exists
    /\ CHECKPOINT_PATH.exists

\* C10: an incremental_update that finds a checkpoint changes no file in two
\* cases: the checkpoint's date is at or after the last business day (the
\* provider is then not called), and the extraction comes back empty.  The
\* primary table is written in neither case.
C10_IncrementalNoOp ==
    [][/\ outcome' \in {"up_to_date", "no_new_data"} =>
            (files' = files /\ pc' = "idle")
       /\ (RunStep /\ command' = "incremental" /\ CHECKPOINT_PATH.exists
             /\ dt_date(Checkpoint) >= LastBusinessDate) =>
            /\ outcome' = "up_to_date"
            /\ provider' = "not_called"
            /\ files' = files
       /\ (RunStep /\ pc' = "daily_saved") =>
            /\ CHECKPOINT_PATH.exists
            /\ dt_date(Checkpoint) < LastBusinessDate
            /\ frame' # EmptyFrame
            /\ provider' = "answered"]_vars

\* C10 witness: the provider was asked and had nothing new, with a primary
\* table and a checkpoint on disk
C10_Witness ==
    /\ outcome = "no_new_data"
    /\ provider = "answered"
    /\ DAILY_PATH.exists
    /\ CHECKPOINT_PATH.exists

\* the table the query service is to serve: the primary when its file is
\* there, else the backup
ServedFile == IF DAILY_PATH.exists THEN DAILY_PATH ELSE BACKUP_PATH

Rows(df) == { df[i] : i \in 1..Len(df) }

DataEndpoints == {"prices", "latest", "date", "range", "stats"}

\* the rows a data endpoint's body is made of
BodyRows(r) ==
    IF r.endpoint \in {"prices", "range"} THEN Rows(r.body)
    ELSE IF r.endpoint \in {"latest", "date"} THEN {r.body}
    ELSE {}

\* C5: every data endpoint (list, latest, byDate, byRange, stats) reads the
\* primary table when the primary file exists, the backup table only when
\* the primary file is absent and the backup file exists, and fails with the
\* 404 "no data / run pipeline" error when neither exists.
C5_PrimaryThenBackup ==
    response.endpoint \in DataEndpoints =>
        /\ DAILY_PATH.exists <=> response.source = "DAILY_PATH"
        /\ (~DAILY_PATH.exists /\ BACKUP_PATH.exists)
              <=> response.source = "BACKUP_PATH"
        /\ (~DAILY_PATH.exists /\ ~BACKUP_PATH.exists) <=>
              /\ response.status_code = 404
              /\ response.source = "none"
              /\ response.detail = "No data available. Run the pipeline first."
        /\ response.status_code = 200 =>
              /\ BodyRows(response) \subseteq Rows(ServedFile.content)
              /\ response.endpoint = "stats" =>
                    response.body.total_records = Len(ServedFile.content)

\* C5 witness: a list answered from the primary table while a backup table
\* with other rows lies beside it
C5_Witness ==
    /\ response.endpoint = "prices"
    /\ response.status_code = 200
    /\ response.body # <<>>
    /\ DAILY_PATH.exists
    /\ BACKUP_PATH.exists
    /\ Rows(BACKUP_PATH.content) \cap Rows(DAILY_PATH.content) = {}

\* C6: health() answers 503 "unhealthy" when both table files are absent,
\* and otherwise 200 "healthy" with total_records the number of records of
\* the table load_data selects; it answers nothing but 200 or 503.
C6_Health ==
    response.endpoint = "health" =>
        /\ response.status_code \in {200, 503}
        /\ IF ~DAILY_PATH.exists /\ ~BACKUP_PATH.exists
           THEN /\ response.status_code = 503
                /\ response.body.status = "unhealthy"
           ELSE /\ response.status_code = 200
                /\ response.body.status = "healthy"
                /\ response.body.total_records = Len(ServedFile.content)

\* C6 witness: healthy, counting a primary table that is longer than the
\* backup table beside it
C6_Witness ==
    /\ response.endpoint = "health"
    /\ response.status_code = 200
    /\ DAILY_PATH.exists
    /\ BACKUP_PATH.exists
    /\ response.body.total_records > Len(BACKUP_PATH.content)

\* the orders of a table's rows
Orders(df) ==
    { f \in [1..Len(df) -> 1..Len(df)] :
        \A i \in 1..Len(df), j \in 1..Len(df) : f[i] = f[j] => i = j }

NewestFirst(df) ==
    \A i \in 1..(Len(df) - 1) : df[i].date >= df[i + 1].date

\* C7: list(limit, skip), for limit in 1..1000 and skip >= 0, returns at
\* most limit records, newest first, and they are the slice [skip, skip+limit)
\* of the whole table sorted descending by date: none when skip is at or
\* past the table's length.
C7_ListIsSlice ==
    (response.endpoint = "prices" /\ response.status_code = 200) =>
        LET df == ServedFile.content
            limit == response.args.limit
            skip == response.args.skip
            page == response.body
        IN  /\ Len(page) <= limit
            /\ NewestFirst(page)
            /\ skip >= Len(df) => page = <<>>
            /\ \E f \in Orders(df) :
                  LET full == [i \in 1..Len(df) |-> df[f[i]]]
                  IN  /\ NewestFirst(full)
                      /\ page = SubSeq(full, skip + 1, Min(skip + limit, Len(df)))

\* C7 witness: a page that starts past the newest record, over a table of
\* two dates
C7_Witness ==
    /\ response.endpoint = "prices"
    /\ response.status_code = 200
    /\ response.args.skip >= 1
    /\ response.body # <<>>
    /\ Cardinality(Dates(ServedFile.content)) >= 2

\* C8: byDate(d) returns a record exactly when some stored record has the
\* calendar date d, and fails with 404 not found otherwise; the record
\* returned has that date and the prices of a stored record of that date.
C8_ByDate ==
    (response.endpoint = "date" /\ response.source # "none") =>
        LET d == response.args.target_date
            stored == { r \in Rows(ServedFile.content) : dt_date(r.date) = d }
        IN  /\ response.status_code = 200 <=> stored # {}
            /\ response.status_code # 200 =>
                  /\ response.status_code = 404
                  /\ response.detail = "No data found for date"
            /\ response.status_code = 200 =>
                  \E r \in stored :
                     /\ response.body.max_price = r.max_price
                     /\ response.body.min_price = r.min_price
                     /\ response.body.closed_price = r.closed_price

\* C8 witness: a record found among records of two dates
C8_Witness ==
    /\ response.endpoint = "date"
    /\ response.status_code = 200
    /\ Cardinality(Dates(ServedFile.content)) >= 2

\* C11: whatever day of the week today is, get_last_business_day returns the
\* last completed business day: a date strictly before today that falls on
\* Monday to Friday, the Friday before when today is Saturday or Sunday and
\* yesterday otherwise.
C11_LastBusinessDay ==
    calendar.asked =>
        LET today == dt_date(calendar.today)
            result == dt_date(calendar.result)
        IN  /\ result < today
            /\ weekday(calendar.result) \in 0..4
            /\ IF weekday(calendar.today) = 5 THEN result = today - 1
               ELSE IF weekday(calendar.today) = 6 THEN result = today - 2
               ELSE result = today - 1

\* the row of the latest occurrence of date d in a table
LastOf(df, d) ==
    df[CHOOSE i \in 1..Len(df) :
          df[i].date = d /\ \A j \in (i + 1)..Len(df) : df[j].date # d]

\* C12: a merge of non-empty new rows N into the primary table T (empty when
\* the primary file is absent) persists a primary table with exactly one
\* record for every date of T or N and no other date, with N's prices on the
\* dates of N and T's prices on the others, in ascending order of date.
C12_MergedTable ==
    [][(RunStep /\ pc' = "daily_saved") =>
         LET T == ExistingTable
             N == frame'
             M == DAILY_PATH'.content
         IN  /\ N # EmptyFrame
             /\ DAILY_PATH'.exists
             /\ Dates(M) = Dates(T) \cup Dates(N)
             /\ OneRecordPerDate(M)
             /\ \A i \in 1..Len(M) :
                   IF M[i].date \in Dates(N)
                   THEN M[i] = LastOf(N, M[i].date)
                   ELSE M[i] \in { T[j] : j \in 1..Len(T) }
             /\ \A i \in 1..(Len(M) - 1) : M[i].date < M[i + 1].date]_vars

\* C12 witness: a merge has just written a primary table that holds a date
\* the new rows lack and, on a date they have, a price they brought
C12_Witness ==
    /\ pc = "daily_saved"
    /\ DAILY_PATH.exists
    /\ Dates(DAILY_PATH.content) # Dates(frame)
    /\ Len(frame) > Cardinality(Dates(frame))
    /\ frame[1] # frame[Len(frame)]

\* the dates the query service has to serve: those of the table load_data
\* reads, none when it has no table
ServedDates == IF load_data.ok THEN Dates(load_data.df) ELSE {}

\* C13: no updater run takes history away from what the query service
\* serves.  From empty storage, through the full backup and the incremental
\* updates that follow it, every date of the table the service loads before
\* an incremental merge is a date of the table it loads after it: the dates
\* of the first full backup stay served after the first incremental merge.
C13_NoHistoryRemoved ==
    [][(RunStep /\ pc' = "daily_saved") => ServedDates \subseteq ServedDates']_vars

\* C14: once the checkpoint file exists, a run interrupted between its two
\* writes included, a table file exists and no table file is empty, so the
\* query service has data and latest() answers with a record of the latest
\* date.
C14_CheckpointImpliesData ==
    CHECKPOINT_PATH.exists =>
        /\ BACKUP_PATH.exists \/ DAILY_PATH.exists
        /\ BACKUP_PATH.exists => BACKUP_PATH.content # EmptyFrame
        /\ DAILY_PATH.exists => DAILY_PATH.content # EmptyFrame
        /\ load_data.ok
        /\ get_latest_price.status_code = 200
        /\ get_latest_price.body \in Rows(ServedFile.content)
        /\ IsMaxDate(get_latest_price.body.date, ServedFile.content)

\* C14 witness: a run was killed between its table write and its checkpoint
\* write, with a checkpoint and a primary table on disk
C14_Witness ==
    /\ outcome = "interrupted"
    /\ CHECKPOINT_PATH.exists
    /\ DAILY_PATH.exists
====
